---- MODULE Spec2Model ----
(***************************************************************************)
(* supermoan.c: relative pointer motion -> intensity level -> sample       *)
(* playback.  Two threads (the monitor, which is the main thread, and the  *)
(* sound player) share current_intensity / is_playing under one mutex and  *)
(* one condition variable; the SIGINT handler runs on the main thread.     *)
(* Each action is one statement (or one run of thread-local statements)    *)
(* of the source; the names are the source's names.                        *)
(***************************************************************************)
EXTENDS Integers, Sequences, FiniteSets, TLC

(* ---- bounds of the model ---- *)
MaxEvents == 3          \* input events the device delivers in one run
MaxFairEvents == 2      \* the same, in the runs checked for progress

(* ---- program constants ---- *)
NUM_INTENSITY_LEVELS == 10
EV_KEY == 1
EV_REL == 2
REL_X == 0
REL_Y == 1
REL_WHEEL == 8

\* min_movement_threshold, max_movement_threshold (in halves) and log_base:
\* the defaults of 37-39, and two others that pass the validation of 416-427
DefaultConfig == [min2 |-> 2, max2 |-> 200, base |-> 2]
NarrowConfig == [min2 |-> 6, max2 |-> 10, base |-> 10]
UnitMaxConfig == [min2 |-> 1, max2 |-> 2, base |-> 2]
Configs == {DefaultConfig, NarrowConfig, UnitMaxConfig}
ValidConfig(c) == c.min2 > 0 /\ c.max2 > c.min2 /\ c.base > 1

\* the input events the device delivers: X and Y motion of levels 2, 3 and 7,
\* a wheel event and a key event
Event(t, c, v) == [type |-> t, code |-> c, value |-> v]
Events == {Event(EV_REL, REL_X, 2), Event(EV_REL, REL_X, -3), Event(EV_REL, REL_Y, 17),
           Event(EV_REL, REL_WHEEL, 2), Event(EV_KEY, REL_X, 1)}
NoEvent == [type |-> 0, code |-> 0, value |-> 0]

VARIABLES
  running,            \* static volatile bool running
  current_intensity,  \* static volatile int current_intensity (0 = empty slot)
  is_playing,         \* static volatile bool is_playing
  mutex,              \* owner of the pthread mutex: "free", "monitor", "player"
  no_sound,           \* static bool no_sound (set by --no-sound before the core runs)
  mpc,                \* position of the main thread inside monitor_device
  ppc,                \* position of sound_player_thread
  hpc,                \* position of handle_signal ("none": not delivered)
  ev,                 \* struct input_event ev
  new_intensity,      \* local of monitor_device
  intensity_to_play,  \* local of sound_player_thread
  nread,              \* events delivered so far by read()
  budget,             \* events the device delivers before it falls silent
  cancelReq,          \* pthread_cancel(player_thread) has been called
  reported,           \* perror("Error reading input event") has been called
  exited,             \* the process has exited
  deposits,           \* history: levels handed to the deposit section, in lock order
  played,             \* history: levels passed to play_sound_file, in call order
  pre,                \* history: channel state seen when the monitor took the lock
  sigSent,            \* history: pthread_cond_signal calls of the current deposit
  playResult,         \* history: outcome of the last returned play_sound_file
  cfg,                \* min_movement_threshold, max_movement_threshold, log_base
  arg,                \* history: arguments of the calculate_intensity call of this iteration
  takenAt             \* history: number of deposits made when the player last took a level

vars == <<running, current_intensity, is_playing, mutex, no_sound, mpc, ppc, hpc,
          ev, new_intensity, intensity_to_play, nread, cancelReq, reported,
          exited, deposits, played, pre, sigSent, playResult, budget, cfg, arg, takenAt>>

shared == <<running, current_intensity, is_playing, mutex>>
monitorLocals == <<mpc, ev, new_intensity, nread, cancelReq, reported>>
playerLocals == <<ppc, intensity_to_play>>
history == <<deposits, played, pre, sigSent, playResult, budget, cfg, arg, takenAt>>

Levels == 1..NUM_INTENSITY_LEVELS

(* ---- calculate_intensity ---- *)

\* 32-bit two's complement values as 16-bit halves; int arithmetic wraps
Half == 65536
Halves(v) == [hi |-> (v \div Half) % Half, lo |-> v % Half]

\* the 32-bit product of two 16-bit halves
Mul16(a, b) ==
  LET a1 == a \div 256   a0 == a % 256
      b1 == b \div 256   b0 == b % 256
      p0 == a0 * b0
      p1 == a1 * b0 + a0 * b1
      p2 == a1 * b1
      t  == p0 + (p1 % 256) * 256
  IN  [hi |-> (p2 + p1 \div 256 + t \div Half) % Half, lo |-> t % Half]

\* v * v in int
Sq32(v) ==
  LET x == Halves(v)
      ll == Mul16(x.lo, x.lo)
      hl == Mul16(x.hi, x.lo)
  IN  [hi |-> (ll.hi + 2 * hl.lo) % Half, lo |-> ll.lo]

Add32(x, y) ==
  LET t == x.lo + y.lo
  IN  [hi |-> (x.hi + y.hi + t \div Half) % Half, lo |-> t % Half]

ToInt32(x) == IF x.hi >= 32768 THEN (x.hi - Half) * Half + x.lo ELSE x.hi * Half + x.lo

\* operands whose squares summed stay below 2^31: no wrap is possible
FitsInt(dx, dy) == dx > -32768 /\ dx < 32768 /\ dy > -32768 /\ dy < 32768

\* 161: dx * dx + dy * dy, as the int the build computes
SumSq32(dx, dy) ==
  IF FitsInt(dx, dy) THEN dx * dx + dy * dy
                     ELSE ToInt32(Add32(Sq32(dx), Sq32(dy)))

\* 164, 171: movement < min_movement_threshold, movement > max_movement_threshold,
\* with movement = sqrt(sq); both are false when sq < 0 (movement is NaN)
BelowMin(sq, c) == sq >= 0 /\ sq < (c.min2 * c.min2 + 3) \div 4
AboveMax(sq, c) == sq >= 0 /\ sq > (c.max2 * c.max2) \div 4

\* smallest dx*dx+dy*dy whose (int)(1 + log(m)/log(max)*9 + 0.5) reaches level k
\* in double arithmetic (log_base cancels in the quotient of 183)
ScaledCut(c, k) ==
  IF c.max2 = 200
    THEN CASE k = 1 -> 1 [] k = 2 -> 2 [] k = 3 -> 5 [] k = 4 -> 13 [] k = 5 -> 36
           [] k = 6 -> 100 [] k = 7 -> 279 [] k = 8 -> 775 [] k = 9 -> 2155
           [] OTHER -> 5995
    ELSE CASE k <= 7 -> 9 [] k = 8 -> 11 [] k = 9 -> 15 [] OTHER -> 21

ScaledLevel(sq, c) ==
  LET reached == {k \in Levels : ScaledCut(c, k) <= sq}
  IN  CHOOSE k \in reached : \A j \in reached : j <= k

\* (int) of a NaN: INT_MIN, 0 or INT_MAX, depending on the target
IntMax == 2147483647
NanToInt == {-IntMax - 1, 0, IntMax}

\* 179-185: (int)(intensity_scaled + 0.5); NaN when movement is NaN, or when
\* max_scaled is 0 (max_movement_threshold = 1.0, movement = 1.0: 0 / 0)
Rounded(sq, c) ==
  IF sq < 0 \/ c.max2 = 2 THEN NanToInt ELSE {ScaledLevel(sq, c)}

\* variant of 186: the lower clamp is missing
Clamp_NoFloor(i) == IF i > NUM_INTENSITY_LEVELS THEN NUM_INTENSITY_LEVELS ELSE i

Clamp(i) ==
  IF i < 1 THEN 1 ELSE IF i > NUM_INTENSITY_LEVELS THEN NUM_INTENSITY_LEVELS ELSE i

\* the values the call can return
calculate_intensity(dx, dy, c) ==
  LET sq == SumSq32(dx, dy)
  IN  IF BelowMin(sq, c) THEN {1}
      ELSE IF AboveMax(sq, c) THEN {NUM_INTENSITY_LEVELS}
      ELSE {Clamp(i) : i \in Rounded(sq, c)}

NoCall == <<>>

(* ---- initial state: monitor_device entered, SIGINT blocked ---- *)

\* the state with the main thread at position pc, configuration c, mapper arguments a
Boot(n, pc, c, a) ==
  /\ budget = n
  /\ running = TRUE
  /\ current_intensity = 0
  /\ is_playing = FALSE
  /\ mutex = "free"
  /\ no_sound \in BOOLEAN
  /\ mpc = pc
  /\ ppc = "p_none"
  /\ hpc = "none"
  /\ ev = NoEvent
  /\ new_intensity = 0
  /\ intensity_to_play = 0
  /\ nread = 0
  /\ cancelReq = FALSE
  /\ reported = FALSE
  /\ exited = FALSE
  /\ deposits = <<>>
  /\ played = <<>>
  /\ pre = [busy |-> FALSE, pending |-> 0]
  /\ sigSent = 0
  /\ playResult = "none"
  /\ cfg = c
  /\ arg = a
  /\ takenAt = 0

Start(n) == Boot(n, "m_create", DefaultConfig, NoCall)

Init == Start(MaxEvents)

\* the main thread executes monitor_device only while no handler is on its stack
MonitorRuns == ~exited /\ hpc = "none"
PlayerRuns == ~exited

\* pthread_cond_signal / pthread_cond_broadcast: the only possible waiter is the player
Wake(pc) == IF pc = "p_blocked" THEN "p_reacq" ELSE pc

(* ---- monitor_device (main thread) ---- *)

\* 289-300: block SIGINT, pthread_create, unblock SIGINT
M_Create ==
  /\ ~exited /\ mpc = "m_create"
  /\ \/ /\ ppc' = "p_while"
        /\ mpc' = "m_open"
     \/ /\ ppc' = ppc              \* pthread_create failed: perror, return
        /\ mpc' = "m_return"
  /\ UNCHANGED <<shared, no_sound, hpc, ev, new_intensity, intensity_to_play,
                 nread, cancelReq, reported, exited, history>>

\* 302-308: open(device_path); on failure cancel and join the player, return
M_Open ==
  /\ MonitorRuns /\ mpc = "m_open"
  /\ \/ mpc' = "m_while"
     \/ mpc' = "m_cancel"          \* fd < 0
  /\ UNCHANGED <<shared, no_sound, ppc, hpc, ev, new_intensity, intensity_to_play,
                 nread, cancelReq, reported, exited, history>>

\* 311: while (running)
M_While ==
  /\ MonitorRuns /\ mpc = "m_while"
  /\ mpc' = IF running THEN "m_read" ELSE "m_close"
  /\ UNCHANGED <<shared, no_sound, ppc, hpc, ev, new_intensity, intensity_to_play,
                 nread, cancelReq, reported, exited, history>>

\* 312-313: read() returns one whole input_event
M_Read ==
  /\ MonitorRuns /\ mpc = "m_read"
  /\ nread < budget
  /\ \E e \in Events : ev' = e
  /\ nread' = nread + 1
  /\ mpc' = "m_event"
  /\ UNCHANGED <<shared, no_sound, ppc, hpc, new_intensity, intensity_to_play,
                 cancelReq, reported, exited, history>>

\* 312-313: read() fails or is short: n < sizeof(struct input_event)
M_ReadFail ==
  /\ MonitorRuns /\ mpc = "m_read"
  /\ mpc' = "m_err"
  /\ UNCHANGED <<shared, no_sound, ppc, hpc, ev, new_intensity, intensity_to_play,
                 nread, cancelReq, reported, exited, history>>

\* variant of 314-317: the break is missing
M_Err_NoBreak ==
  /\ MonitorRuns /\ mpc = "m_err"
  /\ reported' = (reported \/ running)
  /\ mpc' = "m_while"
  /\ UNCHANGED <<shared, no_sound, ppc, hpc, ev, new_intensity, intensity_to_play,
                 nread, cancelReq, exited, history>>

\* 314-317: if (running) perror(...); break
M_Err ==
  /\ MonitorRuns /\ mpc = "m_err"
  /\ reported' = (reported \/ running)
  /\ mpc' = "m_close"
  /\ UNCHANGED <<shared, no_sound, ppc, hpc, ev, new_intensity, intensity_to_play,
                 nread, cancelReq, exited, history>>

\* 320-325: filter on EV_REL and REL_X / REL_Y, compute the level
\* variant of 321: the code is not tested
IsMotion_AnyRel(e) == e.type = EV_REL

IsMotion(e) == e.type = EV_REL /\ (e.code = REL_X \/ e.code = REL_Y)
Dx(e) == IF e.code = REL_X THEN e.value ELSE 0
Dy(e) == IF e.code = REL_Y THEN e.value ELSE 0

M_Event ==
  /\ MonitorRuns /\ mpc = "m_event"
  /\ IF IsMotion(ev)
       THEN /\ arg' = <<Dx(ev), Dy(ev)>>
            /\ new_intensity' \in calculate_intensity(Dx(ev), Dy(ev), cfg)
            /\ mpc' = "m_lock"
       ELSE /\ arg' = arg
            /\ new_intensity' = new_intensity
            /\ mpc' = "m_while"
  /\ UNCHANGED <<shared, no_sound, ppc, hpc, ev, intensity_to_play,
                 nread, cancelReq, reported, exited,
                 deposits, played, pre, sigSent, playResult, budget, cfg, takenAt>>

\* 327: pthread_mutex_lock
M_Lock ==
  /\ MonitorRuns /\ mpc = "m_lock"
  /\ mutex = "free"
  /\ mutex' = "monitor"
  /\ pre' = [busy |-> is_playing, pending |-> current_intensity]
  /\ sigSent' = 0
  /\ mpc' = "m_test"
  /\ UNCHANGED <<running, current_intensity, is_playing, no_sound, ppc, hpc, ev,
                 new_intensity, intensity_to_play, nread, cancelReq, reported,
                 exited, deposits, played, playResult, budget, cfg, arg, takenAt>>

\* 328: if (!is_playing || new_intensity != current_intensity)
\* variant of the test of 328: the busy test dropped
DepositWrites_DiffOnly(busy, pending, level) == level # pending

DepositWrites(busy, pending, level) == ~busy \/ level # pending

M_Test ==
  /\ MonitorRuns /\ mpc = "m_test"
  /\ IF DepositWrites(is_playing, current_intensity, new_intensity)
       THEN /\ mpc' = "m_write"
            /\ deposits' = deposits
       ELSE /\ mpc' = "m_unlock"
            /\ deposits' = Append(deposits, new_intensity)
  /\ UNCHANGED <<shared, no_sound, ppc, hpc, ev, new_intensity, intensity_to_play,
                 nread, cancelReq, reported, exited, played, pre, sigSent, playResult, budget, cfg, arg, takenAt>>

\* variant of 329: an unconsumed higher level is kept
M_Write_KeepMax ==
  /\ MonitorRuns /\ mpc = "m_write"
  /\ current_intensity' =
       IF new_intensity > current_intensity THEN new_intensity ELSE current_intensity
  /\ deposits' = Append(deposits, new_intensity)
  /\ mpc' = "m_signal"
  /\ UNCHANGED <<running, is_playing, mutex, no_sound, ppc, hpc, ev, new_intensity,
                 intensity_to_play, nread, cancelReq, reported, exited,
                 played, pre, sigSent, playResult, budget, cfg, arg, takenAt>>

\* 329: current_intensity = new_intensity
M_Write ==
  /\ MonitorRuns /\ mpc = "m_write"
  /\ current_intensity' = new_intensity
  /\ deposits' = Append(deposits, new_intensity)
  /\ mpc' = "m_signal"
  /\ UNCHANGED <<running, is_playing, mutex, no_sound, ppc, hpc, ev, new_intensity,
                 intensity_to_play, nread, cancelReq, reported, exited,
                 played, pre, sigSent, playResult, budget, cfg, arg, takenAt>>

\* variant of 330: the signal is not sent
M_Signal_NoWake ==
  /\ MonitorRuns /\ mpc = "m_signal"
  /\ sigSent' = sigSent + 1
  /\ mpc' = "m_unlock"
  /\ UNCHANGED <<shared, no_sound, ppc, hpc, ev, new_intensity, intensity_to_play,
                 nread, cancelReq, reported, exited, deposits, played, pre, playResult, budget, cfg, arg, takenAt>>

\* 330: pthread_cond_signal
M_Signal ==
  /\ MonitorRuns /\ mpc = "m_signal"
  /\ ppc' = Wake(ppc)
  /\ sigSent' = sigSent + 1
  /\ mpc' = "m_unlock"
  /\ UNCHANGED <<shared, no_sound, hpc, ev, new_intensity, intensity_to_play,
                 nread, cancelReq, reported, exited, deposits, played, pre, playResult, budget, cfg, arg, takenAt>>

NoSnapshot == [busy |-> FALSE, pending |-> 0]

\* 332: pthread_mutex_unlock
M_Unlock ==
  /\ MonitorRuns /\ mpc = "m_unlock"
  /\ mutex' = "free"
  /\ mpc' = "m_while"
  /\ pre' = NoSnapshot
  /\ sigSent' = 0
  /\ arg' = NoCall
  /\ UNCHANGED <<running, current_intensity, is_playing, no_sound, ppc, hpc, ev,
                 new_intensity, intensity_to_play, nread, cancelReq, reported,
                 exited, deposits, played, playResult, budget, cfg, takenAt>>

\* 337: close(fd)
M_Close ==
  /\ MonitorRuns /\ mpc = "m_close"
  /\ mpc' = "m_cancel"
  /\ UNCHANGED <<shared, no_sound, ppc, hpc, ev, new_intensity, intensity_to_play,
                 nread, cancelReq, reported, exited, history>>

\* 338 (and 305): pthread_cancel(player_thread)
M_Cancel ==
  /\ MonitorRuns /\ mpc = "m_cancel"
  /\ cancelReq' = TRUE
  /\ mpc' = "m_join"
  /\ UNCHANGED <<shared, no_sound, ppc, hpc, ev, new_intensity, intensity_to_play,
                 nread, reported, exited, history>>

\* 339 (and 306): pthread_join(player_thread) returns once the player has terminated
PlayerTerminated == ppc \in {"p_done", "p_cancelled"}

M_Join ==
  /\ MonitorRuns /\ mpc = "m_join"
  /\ PlayerTerminated
  /\ mpc' = "m_return"
  /\ UNCHANGED <<shared, no_sound, ppc, hpc, ev, new_intensity, intensity_to_play,
                 nread, cancelReq, reported, exited, history>>

\* 340 / 297 / 307 and main 441-442: monitor_device returns, main returns 0
M_Return ==
  /\ MonitorRuns /\ mpc = "m_return"
  /\ mpc' = "m_done"
  /\ exited' = TRUE
  /\ UNCHANGED <<shared, no_sound, ppc, hpc, ev, new_intensity, intensity_to_play,
                 nread, cancelReq, reported, history>>

Monitor ==
  \/ M_Create \/ M_Open \/ M_While \/ M_Read \/ M_ReadFail \/ M_Err \/ M_Event
  \/ M_Lock \/ M_Test \/ M_Write \/ M_Signal \/ M_Unlock
  \/ M_Close \/ M_Cancel \/ M_Join \/ M_Return

(* ---- sound_player_thread ---- *)

\* 261: while (running)
P_While ==
  /\ PlayerRuns /\ ppc = "p_while"
  /\ ppc' = IF running THEN "p_lock" ELSE "p_done"
  /\ UNCHANGED <<shared, no_sound, monitorLocals, hpc, intensity_to_play, exited, history>>

\* 262: pthread_mutex_lock
P_Lock ==
  /\ PlayerRuns /\ ppc = "p_lock"
  /\ mutex = "free"
  /\ mutex' = "player"
  /\ ppc' = "p_check"
  /\ UNCHANGED <<running, current_intensity, is_playing, no_sound, monitorLocals,
                 hpc, intensity_to_play, exited, history>>

\* 264: while (current_intensity == 0 && running)
\* variant of 264: the slot is not tested
MustWait_Never(pending, run) == FALSE

MustWait(pending, run) == pending = 0 /\ run

P_Check ==
  /\ PlayerRuns /\ ppc = "p_check"
  /\ ppc' = IF MustWait(current_intensity, running) THEN "p_wait" ELSE "p_chkrun"
  /\ UNCHANGED <<shared, no_sound, monitorLocals, hpc, intensity_to_play, exited, history>>

\* 265: pthread_cond_wait called: the mutex is released and the thread blocks;
\* with a cancellation request pending the call acts on it instead
P_Wait ==
  /\ PlayerRuns /\ ppc = "p_wait"
  /\ IF cancelReq
       THEN /\ ppc' = "p_cancelled"
            /\ mutex' = mutex
       ELSE /\ ppc' = "p_blocked"
            /\ mutex' = "free"
  /\ UNCHANGED <<running, current_intensity, is_playing, no_sound, monitorLocals,
                 hpc, intensity_to_play, exited, history>>

\* 265: a wake-up that no signal or broadcast caused (POSIX allows it)
P_Spurious ==
  /\ PlayerRuns /\ ppc = "p_blocked"
  /\ ppc' = "p_reacq"
  /\ UNCHANGED <<shared, no_sound, monitorLocals, hpc, intensity_to_play, exited, history>>

\* 265: pthread_cond_wait returns with the mutex re-acquired
P_Reacquire ==
  /\ PlayerRuns /\ ppc = "p_reacq"
  /\ mutex = "free"
  /\ mutex' = "player"
  /\ \/ ppc' = "p_check"
     \/ cancelReq /\ ppc' = "p_cancelled"
  /\ UNCHANGED <<running, current_intensity, is_playing, no_sound, monitorLocals,
                 hpc, intensity_to_play, exited, history>>

\* variant of 265: the blocked thread does not act on a cancellation request
P_CancelWait_Deaf ==
  /\ PlayerRuns /\ ppc = "p_blocked"
  /\ cancelReq
  /\ ppc' = "p_blocked"
  /\ UNCHANGED <<shared, no_sound, monitorLocals, hpc, intensity_to_play, exited, history>>

\* 265: cancellation acted on while blocked in pthread_cond_wait: the mutex is
\* re-acquired before the thread terminates, and nothing unlocks it
P_CancelWait ==
  /\ PlayerRuns /\ ppc = "p_blocked"
  /\ cancelReq
  /\ mutex = "free"
  /\ mutex' = "player"
  /\ ppc' = "p_cancelled"
  /\ UNCHANGED <<running, current_intensity, is_playing, no_sound, monitorLocals,
                 hpc, intensity_to_play, exited, history>>

\* 268-271: if (!running) { unlock; break; }
P_ChkRun ==
  /\ PlayerRuns /\ ppc = "p_chkrun"
  /\ IF ~running
       THEN /\ mutex' = "free"
            /\ ppc' = "p_done"
       ELSE /\ mutex' = mutex
            /\ ppc' = "p_take"
  /\ UNCHANGED <<running, current_intensity, is_playing, no_sound, monitorLocals,
                 hpc, intensity_to_play, exited, history>>

\* variant of 273-275: is_playing is not set
P_Take_NoBusy ==
  /\ PlayerRuns /\ ppc = "p_take"
  /\ intensity_to_play' = current_intensity
  /\ current_intensity' = 0
  /\ is_playing' = is_playing
  /\ ppc' = "p_unlock"
  /\ takenAt' = Len(deposits)
  /\ UNCHANGED <<running, mutex, no_sound, monitorLocals, hpc, exited, deposits, played, pre,
                 sigSent, playResult, budget, cfg, arg>>

\* variant of 273-275: the slot is not cleared
P_Take_NoClear ==
  /\ PlayerRuns /\ ppc = "p_take"
  /\ intensity_to_play' = current_intensity
  /\ is_playing' = TRUE
  /\ ppc' = "p_unlock"
  /\ takenAt' = Len(deposits)
  /\ UNCHANGED <<running, current_intensity, mutex, no_sound, monitorLocals, hpc,
                 exited, deposits, played, pre,
                 sigSent, playResult, budget, cfg, arg>>

\* 273-275: intensity_to_play = current_intensity; current_intensity = 0; is_playing = true
P_Take ==
  /\ PlayerRuns /\ ppc = "p_take"
  /\ intensity_to_play' = current_intensity
  /\ current_intensity' = 0
  /\ is_playing' = TRUE
  /\ ppc' = "p_unlock"
  /\ takenAt' = Len(deposits)
  /\ UNCHANGED <<running, mutex, no_sound, monitorLocals, hpc, exited, deposits, played, pre,
                 sigSent, playResult, budget, cfg, arg>>

\* variant of 277: the unlock is missing
P_Unlock_Keep ==
  /\ PlayerRuns /\ ppc = "p_unlock"
  /\ mutex' = mutex
  /\ ppc' = "p_play"
  /\ UNCHANGED <<running, current_intensity, is_playing, no_sound, monitorLocals,
                 hpc, intensity_to_play, exited, history>>

\* 277: pthread_mutex_unlock
P_Unlock ==
  /\ PlayerRuns /\ ppc = "p_unlock"
  /\ mutex' = "free"
  /\ ppc' = "p_play"
  /\ UNCHANGED <<running, current_intensity, is_playing, no_sound, monitorLocals,
                 hpc, intensity_to_play, exited, history>>

\* 279: play_sound_file(intensity_to_play) is called
P_Play ==
  /\ PlayerRuns /\ ppc = "p_play"
  /\ played' = Append(played, intensity_to_play)
  /\ ppc' = "p_playing"
  /\ UNCHANGED <<shared, no_sound, monitorLocals, hpc, intensity_to_play, exited,
                 deposits, pre, sigSent, playResult, budget, cfg, arg, takenAt>>

\* variant of 279-281: a failed playback ends the player loop
P_PlayReturn_Fatal ==
  /\ PlayerRuns /\ ppc = "p_playing"
  /\ \E r \in (IF no_sound THEN {"ok"} ELSE {"ok", "failed"}) :
       /\ playResult' = r
       /\ ppc' = IF r = "failed" THEN "p_done" ELSE "p_lock2"
  /\ UNCHANGED <<shared, no_sound, monitorLocals, hpc, intensity_to_play, exited,
                 deposits, played, pre, sigSent, budget, cfg, arg, takenAt>>

\* 199-217: play_sound_file returns; with sound enabled system() may have failed
\* (missing file, no aplay), its status is not looked at
PlayOutcomes(ns) == IF ns THEN {"ok"} ELSE {"ok", "failed"}

P_PlayReturn ==
  /\ PlayerRuns /\ ppc = "p_playing"
  /\ \E r \in PlayOutcomes(no_sound) : playResult' = r
  /\ ppc' = "p_lock2"
  /\ UNCHANGED <<shared, no_sound, monitorLocals, hpc, intensity_to_play, exited,
                 deposits, played, pre, sigSent, budget, cfg, arg, takenAt>>

\* 212: system() is a cancellation point
P_CancelPlay ==
  /\ PlayerRuns /\ ppc = "p_playing"
  /\ ~no_sound
  /\ cancelReq
  /\ ppc' = "p_cancelled"
  /\ UNCHANGED <<shared, no_sound, monitorLocals, hpc, intensity_to_play, exited, history>>

\* variant of 281: the lock is not taken
P_Lock2_NoLock ==
  /\ PlayerRuns /\ ppc = "p_lock2"
  /\ mutex' = mutex
  /\ ppc' = "p_idle"
  /\ UNCHANGED <<running, current_intensity, is_playing, no_sound, monitorLocals,
                 hpc, intensity_to_play, exited, history>>

\* 281: pthread_mutex_lock
P_Lock2 ==
  /\ PlayerRuns /\ ppc = "p_lock2"
  /\ mutex = "free"
  /\ mutex' = "player"
  /\ ppc' = "p_idle"
  /\ UNCHANGED <<running, current_intensity, is_playing, no_sound, monitorLocals,
                 hpc, intensity_to_play, exited, history>>

\* variant of 282: is_playing is not reset
P_Idle_Keep ==
  /\ PlayerRuns /\ ppc = "p_idle"
  /\ is_playing' = is_playing
  /\ ppc' = "p_unlock2"
  /\ UNCHANGED <<running, current_intensity, mutex, no_sound, monitorLocals,
                 hpc, intensity_to_play, exited, history>>

\* 282: is_playing = false
P_Idle ==
  /\ PlayerRuns /\ ppc = "p_idle"
  /\ is_playing' = FALSE
  /\ ppc' = "p_unlock2"
  /\ UNCHANGED <<running, current_intensity, mutex, no_sound, monitorLocals,
                 hpc, intensity_to_play, exited, history>>

\* 283: pthread_mutex_unlock
P_Unlock2 ==
  /\ PlayerRuns /\ ppc = "p_unlock2"
  /\ mutex' = "free"
  /\ ppc' = "p_while"
  /\ playResult' = "none"
  /\ UNCHANGED <<running, current_intensity, is_playing, no_sound, monitorLocals,
                 hpc, intensity_to_play, exited, deposits, played, pre, sigSent, budget, cfg, arg, takenAt>>

\* the player's steps that a fair scheduler eventually takes
PlayerSteps ==
  \/ P_While \/ P_Lock \/ P_Check \/ P_Wait \/ P_Reacquire \/ P_CancelWait
  \/ P_ChkRun \/ P_Take \/ P_Unlock \/ P_Play \/ P_CancelPlay
  \/ P_Lock2 \/ P_Idle \/ P_Unlock2

Player == PlayerSteps \/ P_PlayReturn \/ P_Spurious

(* ---- handle_signal (SIGINT, on the main thread) ---- *)

\* positions of the main thread inside monitor_device with SIGINT unblocked (after 300)
InMonitorDevice ==
  {"m_open", "m_while", "m_read", "m_err", "m_event", "m_lock", "m_test", "m_write",
   "m_signal", "m_unlock", "m_close", "m_cancel", "m_join", "m_return"}

\* SIGINT is delivered to the main thread (the player inherits the blocked mask of
\* 292); while system() runs the process ignores SIGINT
SigintDeliverable ==
  /\ ~exited /\ hpc = "none"
  /\ mpc \in InMonitorDevice
  /\ ~(ppc = "p_playing" /\ ~no_sound)

\* 248-250: handler entered
H_Signal ==
  /\ SigintDeliverable
  /\ hpc' = "h_set"
  /\ UNCHANGED <<shared, no_sound, monitorLocals, playerLocals, exited, history>>

\* 251: running = false
H_SetRunning ==
  /\ ~exited /\ hpc = "h_set"
  /\ running' = FALSE
  /\ hpc' = "h_broadcast"
  /\ UNCHANGED <<current_intensity, is_playing, mutex, no_sound, monitorLocals,
                 playerLocals, exited, history>>

\* 252: pthread_cond_broadcast
H_Broadcast ==
  /\ ~exited /\ hpc = "h_broadcast"
  /\ ppc' = Wake(ppc)
  /\ hpc' = "h_exit"
  /\ UNCHANGED <<shared, no_sound, monitorLocals, intensity_to_play, exited, history>>

\* 253-254: print_debug_stats(); exit(0)
H_Exit ==
  /\ ~exited /\ hpc = "h_exit"
  /\ exited' = TRUE
  /\ hpc' = "h_done"
  /\ UNCHANGED <<shared, no_sound, monitorLocals, playerLocals, history>>

Handler == H_SetRunning \/ H_Broadcast \/ H_Exit

Next == Monitor \/ Player \/ H_Signal \/ Handler

Spec == Init /\ [][Next]_vars

(* ---- scheduling ---- *)

\* the monitor's steps that do not wait for the device
MonitorSteps ==
  \/ M_Create \/ M_Open \/ M_While \/ M_Err \/ M_Event
  \/ M_Lock \/ M_Test \/ M_Write \/ M_Signal \/ M_Unlock
  \/ M_Close \/ M_Cancel \/ M_Join \/ M_Return

\* Both threads and a running handler are scheduled fairly and every
\* play_sound_file call returns; the device and SIGINT are free to stay silent.
FairInit == Start(MaxFairEvents)

FairSpec ==
  /\ FairInit /\ [][Next]_vars
  /\ WF_vars(MonitorSteps)
  /\ WF_vars(PlayerSteps)
  /\ WF_vars(P_PlayReturn)
  /\ WF_vars(Handler)

Last(q) == q[Len(q)]

\* SIGINT has been delivered, or the monitor has left its read loop
ShutdownBegun == hpc # "none"
MonitorStopping == mpc \in {"m_err", "m_close", "m_cancel", "m_join", "m_return", "m_done"}
Stopping == ShutdownBegun \/ MonitorStopping \/ exited

(* ---- progress ---- *)

\* C4: while no shutdown occurs, a set pending value is eventually taken by
\* the player, and the last level deposited is eventually the last level passed to
\* play_sound_file.
C4_DepositEventuallyPlayed ==
  /\ (current_intensity # 0) ~> (current_intensity = 0 \/ Stopping)
  /\ (deposits # <<>>) ~>
       ((played # <<>> /\ Last(played) = Last(deposits)) \/ Stopping)

(* ---- the channel: deposit, take, coalescing ---- *)

\* C1: the level the player takes is the level of the most recent deposit
\* (the player still holds the lock right after the take, so no deposit is later).
C1_TakeIsLatestDeposit ==
  ppc = "p_unlock" => (deposits # <<>> /\ intensity_to_play = Last(deposits))

\* an older level nobody consumed was overwritten, and the newer one is taken
C1_Witness ==
  /\ ppc = "p_unlock"
  /\ played = <<>>
  /\ Len(deposits) = 2
  /\ deposits[1] # deposits[2]
  /\ intensity_to_play = deposits[2]

\* C2: at the end of a deposit section, pending was overwritten and one signal
\* sent exactly when the player was not busy or the level differed from pending;
\* otherwise pending is as found and no signal was sent; busy is as found.
C2_DepositEffect ==
  mpc = "m_unlock" =>
    /\ is_playing = pre.busy
    /\ IF (~pre.busy) \/ new_intensity # pre.pending
         THEN current_intensity = new_intensity /\ sigSent = 1 /\ ppc # "p_blocked"
         ELSE current_intensity = pre.pending /\ sigSent = 0

\* both branches: an overwrite with the player idle and equal pending...
C2_Witness ==
  /\ mpc = "m_unlock"
  /\ ~pre.busy
  /\ pre.pending = new_intensity
  /\ sigSent = 1

\* ... and a skipped deposit (busy, equal pending)
C2_WitnessSkip ==
  /\ mpc = "m_unlock"
  /\ pre.busy
  /\ pre.pending = new_intensity
  /\ sigSent = 0

RECURSIVE IsSubseq(_, _)
IsSubseq(a, b) ==
  IF a = <<>> THEN TRUE
  ELSE IF b = <<>> THEN FALSE
  ELSE IF a[1] = b[1] THEN IsSubseq(Tail(a), Tail(b))
  ELSE IsSubseq(a, Tail(b))

\* the slot is empty, no deposit is in progress and every taken level has been
\* passed to play_sound_file
Drained ==
  /\ current_intensity = 0
  /\ mutex # "monitor"
  /\ ppc \notin {"p_unlock", "p_play"}

ShutdownInvoked == hpc \in {"h_exit", "h_done"}

\* C5: once shutdown has set running false and woken all waiters, no further
\* play_sound_file call is started.
C5_NoPlayAfterShutdown == [][ShutdownInvoked => played' = played]_vars

\* C6: after shutdown's wake-all the player is never left suspended in
\* pthread_cond_wait (no lost wake-up).
C6_NoLostWakeup == ShutdownInvoked => ppc # "p_blocked"

\* C7: the process exits only after the monitor loop has returned and the
\* player thread, if it was created, has terminated and been joined.
C7_ExitAfterJoin ==
  exited => (mpc = "m_done" /\ ppc \in {"p_none", "p_done", "p_cancelled"})

(* ---- errors ---- *)

\* C8: a read failure while running is reported and the monitor's cancel and
\* join of the player complete, wherever the player is, unless SIGINT arrives first.
C8_ReadFailureStopsBoth ==
  (mpc = "m_err" /\ running) ~>
    ((mpc \in {"m_return", "m_done"} /\ PlayerTerminated /\ reported) \/ ShutdownBegun)

C8_Witness ==
  /\ mpc = "m_done"
  /\ reported
  /\ ppc = "p_cancelled"
  /\ is_playing
  /\ hpc = "none"

\* C9: the read failure is reported only if running is true at the check, and
\* after a failed read the monitor stays stopped and deposits nothing.
C9_ReadFailure ==
  [][ /\ (reported' /\ ~reported) => (running /\ mpc = "m_err")
      /\ MonitorStopping =>
           (MonitorStopping' /\ deposits' = deposits
              /\ current_intensity' \in {current_intensity, 0}) ]_vars

C9_Witness ==
  /\ mpc = "m_done"
  /\ reported
  /\ nread > 0

\* C10: after a failed play_sound_file the player still marks itself idle and
\* returns to the head of its loop, and a level pending at that time is passed to
\* a new play_sound_file call (playResult is "failed" only between the return of
\* the failed call and line 283).
C10_PlaybackFailureNonFatal ==
  /\ (playResult = "failed") ~> ((ppc = "p_while" /\ ~is_playing) \/ exited)
  /\ (playResult = "failed" /\ current_intensity # 0) ~> (ppc = "p_playing" \/ Stopping)

C10_Witness ==
  /\ playResult = "failed"
  /\ ppc = "p_unlock2"
  /\ ~is_playing
  /\ current_intensity # 0

C4_Witness ==
  /\ Len(deposits) = 2
  /\ played = deposits
  /\ ~Stopping

(* ---- calculate_intensity on its own ---- *)

\* argument pairs: below, at and above the thresholds, and at the edge of int
MapArgs ==
  {<<0, 0>>, <<1, 0>>, <<0, 2>>, <<-3, 0>>, <<3, 4>>, <<0, 5>>, <<4, 4>>, <<6, 8>>,
   <<60, 80>>, <<100, 0>>, <<0, 101>>, <<46340, 0>>, <<46341, 0>>, <<0, -46341>>,
   <<65536, 0>>, <<32768, 32768>>, <<-IntMax - 1, 0>>}

\* a direct call of calculate_intensity with any of the arguments, under any of
\* the configurations
MapInit ==
  \E a \in MapArgs : \E c \in {k \in Configs : ValidConfig(k)} :
    Boot(0, "map_call", c, a)

\* 160-197: the call returns
Map_Call ==
  /\ mpc = "map_call"
  /\ new_intensity' \in calculate_intensity(arg[1], arg[2], cfg)
  /\ mpc' = "map_done"
  /\ UNCHANGED <<shared, no_sound, ppc, hpc, ev, intensity_to_play, nread,
                 cancelReq, reported, exited, history>>

\* input_event.value is a 32-bit int: a device that reports a delta of 2^16
WideEvents == {Event(EV_REL, REL_X, 65536)}

\* 312-313: read() returns such an event
M_ReadWide ==
  /\ MonitorRuns /\ mpc = "m_read"
  /\ nread < budget
  /\ \E e \in WideEvents : ev' = e
  /\ nread' = nread + 1
  /\ mpc' = "m_event"
  /\ UNCHANGED <<shared, no_sound, ppc, hpc, new_intensity, intensity_to_play,
                 cancelReq, reported, exited, history>>

MapNext == Next \/ Map_Call \/ M_ReadWide

\* the program on any 32-bit deltas, and calculate_intensity called on its own
MapSpec == (Init \/ MapInit) /\ [][MapNext]_vars

InDeposit == mpc \in {"m_lock", "m_test", "m_write", "m_signal", "m_unlock"}
InRange(q) == \A i \in 1..Len(q) : q[i] \in Levels

\* C11: every level returned by calculate_intensity, deposited or passed to
\* play_sound_file is in 1..10, for every argument pair and configuration; the
\* slot holds 0 or a level and the player never plays 0.
C11_LevelsInRange ==
  /\ (mpc = "map_done" \/ InDeposit) => new_intensity \in Levels
  /\ current_intensity \in {0} \cup Levels
  /\ InRange(deposits)
  /\ InRange(played)
  /\ ppc \in {"p_unlock", "p_play", "p_playing"} => intensity_to_play \in Levels

\* movement exactly max_movement_threshold = 1.0: 0 / 0, and the clamp decides
C11_Witness ==
  /\ mpc = "map_done"
  /\ cfg = UnitMaxConfig
  /\ arg = <<1, 0>>
  /\ new_intensity = NUM_INTENSITY_LEVELS

\* the magnitude of the argument pair against the thresholds, in exact arithmetic
Far(v) == v > 1000 \/ v < -1000
ExactSq(a) == a[1] * a[1] + a[2] * a[2]
TrulyBelowMin(a, c) == ~Far(a[1]) /\ ~Far(a[2]) /\ 4 * ExactSq(a) < c.min2 * c.min2
TrulyAboveMax(a, c) == Far(a[1]) \/ Far(a[2]) \/ 4 * ExactSq(a) > c.max2 * c.max2

\* C12: a magnitude strictly below the minimum threshold maps to 1 and a
\* magnitude strictly above the maximum threshold maps to 10.
C12_Saturation ==
  mpc = "map_done" =>
    /\ TrulyBelowMin(arg, cfg) => new_intensity = 1
    /\ TrulyAboveMax(arg, cfg) => new_intensity = NUM_INTENSITY_LEVELS

\* C13: the int sum of squares under the square root is never negative, for
\* every argument pair of a call.
C13_SumOfSquaresNonNegative ==
  (mpc = "map_done" \/ InDeposit) => SumSq32(arg[1], arg[2]) >= 0

(* ---- the channel lock and the busy flag ---- *)

TakenNotIdle == {"p_unlock", "p_play", "p_playing", "p_lock2", "p_idle"}

\* C14: is_playing is true from the take (273-275) to the reset of 282 and
\* false elsewhere in the loop; right after the take the slot is empty; in
\* play_sound_file is_playing is true; waiting for work it is false.  (A player
\* cancelled inside play_sound_file never reaches 282.)
C14_BusyBetweenTakeAndIdle ==
  /\ ppc \in TakenNotIdle => is_playing
  /\ is_playing => ppc \in TakenNotIdle \cup {"p_cancelled"}
  /\ ppc = "p_unlock" => current_intensity = 0
  /\ ppc \in {"p_wait", "p_blocked", "p_reacq"} => ~is_playing

\* playback in progress, the played level gone from the slot, a newer one pending
C14_Witness ==
  /\ ppc = "p_playing"
  /\ is_playing
  /\ current_intensity # 0
  /\ current_intensity # intensity_to_play

\* the positions at which a thread reads or writes current_intensity / is_playing
MonitorInside == mpc \in {"m_test", "m_write", "m_signal", "m_unlock"}
PlayerInside ==
  ppc \in {"p_check", "p_wait", "p_chkrun", "p_take", "p_unlock", "p_idle", "p_unlock2"}

\* C15: a thread reads or writes the channel state only while it owns the
\* mutex, the two threads are never inside together, and the state changes only
\* in steps taken under the mutex.
C15_ChannelUnderLock ==
  /\ [](MonitorInside => mutex = "monitor")
  /\ [](PlayerInside => mutex = "player")
  /\ [](~(MonitorInside /\ PlayerInside))
  /\ [][(current_intensity' # current_intensity \/ is_playing' # is_playing)
          => (mutex # "free" /\ mutex' = mutex)]_vars

\* the monitor is inside while the player waits for the lock of 281
C15_Witness ==
  /\ MonitorInside
  /\ ppc = "p_lock2"
  /\ is_playing

\* the player is scheduled fairly; play_sound_file need not return
LockFairSpec == FairInit /\ [][Next]_vars /\ WF_vars(PlayerSteps)

\* C16: the player does not own the mutex while play_sound_file runs or while
\* it is blocked in pthread_cond_wait, and whenever the monitor is at the lock of
\* 327 the mutex becomes free without play_sound_file having to return.
C16_DepositNeverWaitsForPlayback ==
  /\ [](ppc \in {"p_play", "p_playing", "p_blocked"} => mutex # "player")
  /\ (mpc = "m_lock") ~> (mutex = "free" \/ exited)

\* the monitor takes the lock while a playback is in progress
C16_Witness ==
  /\ mpc = "m_test"
  /\ ppc = "p_playing"
  /\ mutex = "monitor"

(* ---- the monitor loop ---- *)

NotXYMotion(e) == e.type # EV_REL \/ e.code \notin {REL_X, REL_Y}

\* C17: the monitor's step on an event that is not relative X / Y motion leaves
\* the slot, the busy flag, the mutex and the player untouched, calls neither
\* calculate_intensity nor perror, and returns to the head of the loop, from
\* where the monitor goes on to read.
C17_OtherEventsIgnored ==
  [][ /\ (mpc = "m_event" /\ NotXYMotion(ev) /\ mpc' # mpc) =>
           /\ mpc' = "m_while"
           /\ UNCHANGED <<current_intensity, is_playing, mutex, running, ppc,
                          new_intensity, arg, deposits, sigSent, reported>>
      /\ (mpc = "m_while" /\ mpc' # mpc) => mpc' = "m_read" ]_vars

C17_Witness ==
  /\ ev = Event(EV_REL, REL_WHEEL, 2)
  /\ mpc = "m_read"
  /\ nread = 1
  /\ deposits = <<>>
  /\ arg = NoCall
  /\ current_intensity = 0

\* the device has delivered all its events and the monitor waits in read()
DeviceSilent == mpc = "m_read" /\ nread = budget

\* nothing pending, nothing playing, the player blocked in pthread_cond_wait and
\* the last level deposited is the last level played
Quiescent ==
  /\ current_intensity = 0
  /\ ~is_playing
  /\ ppc = "p_blocked"
  /\ deposits # <<>> => (played # <<>> /\ Last(played) = Last(deposits))

\* the monitor waits for a mutex the player owns while the player itself waits
\* (for the mutex or for a signal) or has terminated
Deadlocked ==
  /\ mpc = "m_lock"
  /\ mutex = "player"
  /\ ppc \in {"p_lock", "p_lock2", "p_reacq", "p_blocked", "p_done", "p_cancelled"}

\* C18: with no shutdown, the two threads never block each other, and once the
\* device has delivered its last event the system reaches the quiescent state.
C18_NoDeadlockAndQuiescence ==
  /\ [](~Stopping => ~Deadlocked)
  /\ (DeviceSilent /\ ~Stopping) ~> (Quiescent \/ Stopping)

C18_Witness ==
  /\ DeviceSilent
  /\ Quiescent
  /\ no_sound
  /\ Len(deposits) = budget
  /\ ~Stopping

\* C19: at every take at least one deposit has been made since the previous
\* take, and the number of play_sound_file calls never exceeds the number of deposits.
C19_TakeConsumesFreshDeposit ==
  /\ [][(ppc = "p_take" /\ ppc' = "p_unlock") => Len(deposits) > takenAt]_vars
  /\ [](takenAt <= Len(deposits) /\ Len(played) <= Len(deposits))

\* two takes, each of a fresh deposit
C19_Witness ==
  /\ Len(played) = 2
  /\ Len(deposits) = 2
  /\ takenAt = 2

AbsVal(v) == IF v < 0 THEN -v ELSE v

\* sq is v * v as an integer: what sqrt needs to return |v|
IsSquareOf(sq, v) == v >= -46340 /\ v <= 46340 /\ sq = v * v

\* C20: every call of calculate_intensity by the monitor has dx = ev.value,
\* dy = 0 for an X event and dx = 0, dy = ev.value for a Y event, so one of them is
\* 0, and the magnitude the call takes the root of is that of the one delta:
\* sqrt(dx*dx + dy*dy) = |ev.value|.
C20_OneAxisPerCall ==
  InDeposit =>
    /\ arg[1] = 0 \/ arg[2] = 0
    /\ arg = IF ev.code = REL_X THEN <<ev.value, 0>> ELSE <<0, ev.value>>
    /\ IsSquareOf(SumSq32(arg[1], arg[2]), AbsVal(ev.value))

\* C20, the part about the axes alone: one of dx, dy is 0 and the other is the
\* event's value, whatever the value
C20_AxesSeparate ==
  InDeposit =>
    /\ arg[1] = 0 \/ arg[2] = 0
    /\ arg = IF ev.code = REL_X THEN <<ev.value, 0>> ELSE <<0, ev.value>>

====
